---------------------------- MODULE Spec2Model ----------------------------
(***************************************************************************)
(* A model of rearrange (Einops_from_scratch.ipynb): the pattern           *)
(* tokenizer, the axis resolver, the execution planner and the executor.   *)
(*                                                                         *)
(* A Python str is a sequence of one-character strings, so that split,     *)
(* replace, strip and the tokenizer's regular expression are computed on   *)
(* the characters.  An ndarray is a record [shape, data]: data lists the   *)
(* elements in C order, and every element of the caller's array is named   *)
(* by its flat offset, so that the result of a call tells, for every       *)
(* output position, which input element it holds.                          *)
(***************************************************************************)
EXTENDS Integers, Sequences, FiniteSets, TLC

\* Bounds of the explored inputs.
MaxRank == 4
MaxDim == 2
MaxElems == 8
MaxSplit == 4
MaxLen == 2
MaxCalls == 2

-----------------------------------------------------------------------------
(* Python str primitives, on sequences of characters. *)

WS == {" "}

StartsWith(s, p) == Len(s) >= Len(p) /\ SubSeq(s, 1, Len(p)) = p

EndsWith(s, p) == Len(s) >= Len(p) /\ SubSeq(s, Len(s) - Len(p) + 1, Len(s)) = p

Drop(s, n) == SubSeq(s, n + 1, Len(s))

\* sub in s
RECURSIVE Contains(_, _)
Contains(s, sub) ==
    IF Len(s) < Len(sub) THEN FALSE
    ELSE StartsWith(s, sub) \/ Contains(Tail(s), sub)

\* s.replace(old, new), old non-empty
RECURSIVE Replace(_, _, _)
Replace(s, old, new) ==
    IF Len(s) < Len(old) THEN s
    ELSE IF StartsWith(s, old) THEN new \o Replace(Drop(s, Len(old)), old, new)
    ELSE <<s[1]>> \o Replace(Tail(s), old, new)

\* s.split(sep), sep non-empty: acc is the part being read
RECURSIVE SplitOn(_, _, _)
SplitOn(s, sep, acc) ==
    IF Len(s) < Len(sep) THEN <<acc \o s>>
    ELSE IF StartsWith(s, sep) THEN <<acc>> \o SplitOn(Drop(s, Len(sep)), sep, <<>>)
    ELSE SplitOn(Tail(s), sep, Append(acc, s[1]))

\* s.split(): runs of non-whitespace characters
RECURSIVE SplitWS(_, _)
SplitWS(s, acc) ==
    IF s = <<>> THEN (IF acc = <<>> THEN <<>> ELSE <<acc>>)
    ELSE IF s[1] \in WS
         THEN (IF acc = <<>> THEN <<>> ELSE <<acc>>) \o SplitWS(Tail(s), <<>>)
         ELSE SplitWS(Tail(s), Append(acc, s[1]))

\* s.lstrip(chars), s.rstrip(chars), s.strip(chars)
RECURSIVE LStrip(_, _)
LStrip(s, chars) ==
    IF s # <<>> /\ s[1] \in chars THEN LStrip(Tail(s), chars) ELSE s

RECURSIVE RStrip(_, _)
RStrip(s, chars) ==
    IF s # <<>> /\ s[Len(s)] \in chars
    THEN RStrip(SubSeq(s, 1, Len(s) - 1), chars) ELSE s

Strip(s, chars) == RStrip(LStrip(s, chars), chars)

Range(f) == {f[i] : i \in DOMAIN f}

\* str(i) for i >= 0
RECURSIVE Str(_)
Str(i) ==
    LET digit == <<"0", "1", "2", "3", "4", "5", "6", "7", "8", "9">>[(i % 10) + 1]
    IN  IF i < 10 THEN <<digit>> ELSE Append(Str(i \div 10), digit)

-----------------------------------------------------------------------------
(* ndarray primitives: shape and C-order data. *)

RECURSIVE Prod(_)
Prod(s) == IF s = <<>> THEN 1 ELSE s[1] * Prod(Tail(s))

\* flat C-order offset of the 0-based multi-index idx in an array of this shape
RECURSIVE Ravel(_, _)
Ravel(shape, idx) ==
    IF shape = <<>> THEN 0
    ELSE idx[1] * Prod(Tail(shape)) + Ravel(Tail(shape), Tail(idx))

\* the 0-based multi-index of flat offset f
RECURSIVE Unravel(_, _)
Unravel(shape, f) ==
    IF shape = <<>> THEN <<>>
    ELSE LET inner == Prod(Tail(shape))
         IN  <<f \div inner>> \o Unravel(Tail(shape), f % inner)

\* the array whose element at flat offset f - 1 is t's element at multi-index src[f]
Gather(t, newshape, src) ==
    [shape |-> newshape,
     data  |-> [f \in 1..Prod(newshape) |-> t.data[Ravel(t.shape, src[f]) + 1]]]

\* np.transpose(t, axes) accepts axes only when it is a permutation of range(ndim)
TransposeOk(t, axes) ==
    /\ Len(axes) = Len(t.shape)
    /\ \A k \in DOMAIN axes : axes[k] \in 0..(Len(t.shape) - 1)
    /\ \A j, k \in DOMAIN axes : j # k => axes[j] # axes[k]

\* result axis k is input axis axes[k]
NpTranspose(t, axes) ==
    LET newshape == [k \in DOMAIN axes |-> t.shape[axes[k] + 1]]
        src == [f \in 1..Prod(newshape) |->
                  LET m == Unravel(newshape, f - 1)
                  IN  [a \in DOMAIN t.shape |->
                         m[CHOOSE k \in DOMAIN axes : axes[k] = a - 1]]]
    IN  Gather(t, newshape, src)

\* np.expand_dims(t, axis) for axis >= 0: the new axis must lie in the result
ExpandDimsOk(t, axis) == axis <= Len(t.shape)

NpExpandDims(t, axis) ==
    [shape |-> SubSeq(t.shape, 1, axis) \o <<1>> \o Drop(t.shape, axis),
     data  |-> t.data]

\* np.repeat(t, size, axis): every element repeated size times along axis
NpRepeat(t, size, axis) ==
    LET newshape == [t.shape EXCEPT ![axis + 1] = @ * size]
        src == [f \in 1..Prod(newshape) |->
                  [Unravel(newshape, f - 1) EXCEPT ![axis + 1] = @ \div size]]
    IN  Gather(t, newshape, src)

\* t.reshape(newshape) needs the element counts to agree (no -1 entry here)
ReshapeOk(t, newshape) == Prod(newshape) = Len(t.data)

NpReshape(t, newshape) == [shape |-> newshape, data |-> t.data]

-----------------------------------------------------------------------------
(* Exceptions: the Python class and the fixed part of the message. *)

NoError == [exc |-> "none", msg |-> ""]

EinopsError(m) == [exc |-> "EinopsError", msg |-> m]

Raise(e) == [exc |-> e, msg |-> ""]

\* dict d with d[k] = v
Put(d, k, v) == [x \in (DOMAIN d) \cup {k} |-> IF x = k THEN v ELSE d[x]]

EmptyDict == [x \in {} |-> 0]

ELLIPSIS == <<".", ".", ".">>

ARROW == <<"-", ">">>

HasParen(dim) == "(" \in Range(dim)

-----------------------------------------------------------------------------
(* validate_axes_lengths and parse_pattern *)

_collect_identifiers(pat) ==
    Range(SplitWS(Replace(Replace(Replace(pat, <<"(">>, <<" ">>),
                                  <<")">>, <<" ">>),
                          ELLIPSIS, <<" ">>), <<>>))

validate_axes_lengths(pat, lengths) ==
    IF (DOMAIN lengths) \ _collect_identifiers(pat) # {}
    THEN EinopsError("Unexpected axes_lengths keys")
    ELSE NoError

\* re.findall(r'\(.*?\)|\.\.\.|\S+', s): at each position the first alternative
\* that matches; a position where none matches is skipped
RECURSIVE FindAll(_)
FindAll(s) ==
    IF s = <<>> THEN <<>>
    ELSE IF s[1] = "(" /\ \E i \in 2..Len(s) : s[i] = ")"
    THEN LET j == CHOOSE i \in 2..Len(s) :
                    s[i] = ")" /\ \A k \in 2..(i - 1) : s[k] # ")"
         IN  <<SubSeq(s, 1, j)>> \o FindAll(Drop(s, j))
    ELSE IF StartsWith(s, ELLIPSIS)
    THEN <<ELLIPSIS>> \o FindAll(Drop(s, 3))
    ELSE IF s[1] \notin WS
    THEN LET j == CHOOSE i \in 1..Len(s) :
                    /\ \A k \in 1..i : s[k] \notin WS
                    /\ (i = Len(s) \/ s[i + 1] \in WS)
         IN  <<SubSeq(s, 1, j)>> \o FindAll(Drop(s, j))
    ELSE FindAll(Tail(s))

tokenize(expr) == FindAll(Strip(Replace(expr, ELLIPSIS, <<" ">> \o ELLIPSIS \o <<" ">>), WS))

\* input_part, output_part = pattern.split('->') unpacks exactly two parts
parse_pattern(pat) ==
    IF ~Contains(pat, ARROW)
    THEN [error |-> EinopsError("Pattern must contain '->'"),
          input_dims |-> <<>>, output_dims |-> <<>>]
    ELSE LET parts == SplitOn(pat, ARROW, <<>>)
         IN  IF Len(parts) # 2
             THEN [error |-> Raise("ValueError"),
                   input_dims |-> <<>>, output_dims |-> <<>>]
             ELSE [error |-> NoError,
                   input_dims |-> tokenize(parts[1]),
                   output_dims |-> tokenize(parts[2])]

\* the three checks on the token lists
CountEllipsis(dims) == Cardinality({i \in DOMAIN dims : dims[i] = ELLIPSIS})

PatternValidation(input_dims, output_dims) ==
    IF \E dim \in Range(input_dims \o output_dims) :
           HasParen(dim) /\ ~EndsWith(dim, <<")">>)
    THEN EinopsError("Mismatched parentheses in pattern")
    ELSE IF CountEllipsis(input_dims) > 1
    THEN EinopsError("Multiple ellipses in input pattern")
    ELSE IF (ELLIPSIS \in Range(input_dims)) # (ELLIPSIS \in Range(output_dims))
    THEN EinopsError("Ellipsis must appear in both input and output patterns if used")
    ELSE NoError

-----------------------------------------------------------------------------
(* Ellipsis expansion *)

\* dims.index('...')
IndexOf(dims, x) == CHOOSE i \in DOMAIN dims : dims[i] = x /\ \A k \in 1..(i - 1) : dims[k] # x

\* f'_d{i}'
SyntheticName(i) == <<"_", "d">> \o Str(i)

\* a faulty variant: the ellipsis token is counted as an explicit position
n_explicit_all(input_dims) == Len(input_dims)

n_explicit(input_dims) == Cardinality({i \in DOMAIN input_dims : input_dims[i] # ELLIPSIS})

\* dims with its first '...' replaced by the n synthetic names
ExpandAt(dims, n) ==
    LET e == IndexOf(dims, ELLIPSIS)
    IN  SubSeq(dims, 1, e - 1) \o [i \in 1..n |-> SyntheticName(i - 1)] \o Drop(dims, e)

ProcessEllipsis(input_dims, output_dims, ndim) ==
    IF ELLIPSIS \in Range(input_dims)
    THEN LET n == ndim - n_explicit(input_dims)
         IN  IF n < 0
             THEN [error |-> EinopsError("Not enough dimensions in tensor"),
                   full_input_dims |-> <<>>, full_output_dims |-> <<>>, n_ellipsis |-> 0]
             ELSE [error |-> NoError,
                   full_input_dims |-> ExpandAt(input_dims, n),
                   full_output_dims |-> ExpandAt(output_dims, n),
                   n_ellipsis |-> n]
    ELSE [error |-> NoError, full_input_dims |-> input_dims,
          full_output_dims |-> output_dims, n_ellipsis |-> 0]

-----------------------------------------------------------------------------
(* Axis resolver: one iteration of "for dim in full_input_dims".  A resolver   *)
(* state r is [error, dim_sizes, composite_dims, pos, input_dim_to_pos].      *)

Fail(r, e) == [r EXCEPT !.error = e]

\* dim.strip('()').split()
Components(dim) == SplitWS(Strip(dim, {"(", ")"}), <<>>)

\* a token of the ellipsis region: shape[pos] is read with no check on pos
ResolveSynthetic(r, dim, shape) ==
    IF r.pos >= Len(shape) THEN Fail(r, Raise("IndexError"))
    ELSE [r EXCEPT !.dim_sizes = Put(@, dim, shape[r.pos + 1]),
                   !.input_dim_to_pos = Put(@, dim, r.pos),
                   !.pos = @ + 1]

\* the loop over the members of a group: k is [error, known_size, unknown, dim_sizes],
\* unknown being <<>> for None and <<comp>> otherwise
RECURSIVE KnownSize(_, _, _, _)
KnownSize(components, dim, lengths, k) ==
    IF components = <<>> \/ k.error # NoError THEN k
    ELSE LET comp == Head(components)
         IN  IF comp \in DOMAIN lengths
             THEN KnownSize(Tail(components), dim, lengths,
                            [k EXCEPT !.known_size = @ * lengths[comp],
                                      !.dim_sizes = Put(@, comp, lengths[comp])])
             ELSE IF k.unknown # <<>>
             THEN [k EXCEPT !.error = EinopsError("Multiple unknown dimensions in")]
             ELSE KnownSize(Tail(components), dim, lengths, [k EXCEPT !.unknown = <<comp>>])

RECURSIVE PutAll(_, _, _)
PutAll(d, keys, v) ==
    IF keys = <<>> THEN d ELSE PutAll(Put(d, Head(keys), v), Tail(keys), v)

\* a faulty variant: the unknown member takes the whole axis
InferUnknownWhole(total_size, known_size) == total_size

\* dim_sizes[unknown] = total_size // known_size
InferUnknown(total_size, known_size) == total_size \div known_size

ResolveComposite(r, dim, shape, lengths) ==
    IF r.pos >= Len(shape) THEN Fail(r, Raise("IndexError"))
    ELSE
    LET components == Components(dim)
        total_size == shape[r.pos + 1]
        k == KnownSize(components, dim, lengths,
                       [error |-> NoError, known_size |-> 1, unknown |-> <<>>,
                        dim_sizes |-> r.dim_sizes])
        r1 == [r EXCEPT !.composite_dims = Put(@, dim, components),
                        !.dim_sizes = k.dim_sizes]
        done(rr) == [rr EXCEPT !.input_dim_to_pos = PutAll(@, components, r.pos),
                               !.pos = @ + 1]
    IN  IF k.error # NoError THEN Fail(r1, k.error)
        ELSE IF k.unknown # <<>>
        THEN IF k.known_size = 0 THEN Fail(r1, Raise("ZeroDivisionError"))
             ELSE IF total_size % k.known_size # 0
             THEN Fail(r1, EinopsError("Cannot divide dimension size"))
             ELSE done([r1 EXCEPT !.dim_sizes =
                                     Put(@, k.unknown[1],
                                         InferUnknown(total_size, k.known_size))])
        ELSE IF total_size # k.known_size
        THEN Fail(r1, EinopsError("Size mismatch for"))
        ELSE done(r1)

\* a faulty variant: a name that already has a position keeps it
ResolveNamedKeepFirst(r, dim, shape, lengths) ==
    IF r.pos >= Len(shape)
    THEN Fail(r, EinopsError("Not enough dimensions in tensor"))
    ELSE IF dim \in DOMAIN lengths /\ shape[r.pos + 1] # lengths[dim] /\ shape[r.pos + 1] # 1
    THEN Fail(r, EinopsError("Dimension size mismatch for"))
    ELSE [r EXCEPT !.dim_sizes = Put(@, dim, IF dim \in DOMAIN lengths THEN lengths[dim]
                                             ELSE shape[r.pos + 1]),
                   !.input_dim_to_pos = IF dim \in DOMAIN @ THEN @ ELSE Put(@, dim, r.pos),
                   !.pos = @ + 1]

ResolveNamed(r, dim, shape, lengths) ==
    IF r.pos >= Len(shape)
    THEN Fail(r, EinopsError("Not enough dimensions in tensor"))
    ELSE IF dim \in DOMAIN lengths
    THEN IF shape[r.pos + 1] # lengths[dim] /\ shape[r.pos + 1] # 1
         THEN Fail(r, EinopsError("Dimension size mismatch for"))
         ELSE [r EXCEPT !.dim_sizes = Put(@, dim, lengths[dim]),
                        !.input_dim_to_pos = Put(@, dim, r.pos),
                        !.pos = @ + 1]
    ELSE [r EXCEPT !.dim_sizes = Put(@, dim, shape[r.pos + 1]),
                   !.input_dim_to_pos = Put(@, dim, r.pos),
                   !.pos = @ + 1]

ResolveDim(r, dim, shape, lengths) ==
    IF StartsWith(dim, <<"_", "d">>) THEN ResolveSynthetic(r, dim, shape)
    ELSE IF HasParen(dim) THEN ResolveComposite(r, dim, shape, lengths)
    ELSE ResolveNamed(r, dim, shape, lengths)

-----------------------------------------------------------------------------
(* Transposition: the permutation-only path *)

FastPath(full_in, full_out, dim_to_pos) ==
    /\ ~\E d \in Range(full_in \o full_out) : HasParen(d)
    /\ ~\E d \in Range(full_out) : d # ELLIPSIS /\ d \notin DOMAIN dim_to_pos

\* a faulty variant: the positions are collected in reverse order
RECURSIVE PermutationReversed(_, _, _)
PermutationReversed(full_out, dim_to_pos, used_dims) ==
    IF full_out = <<>> THEN <<>>
    ELSE LET dim == Head(full_out)
         IN  IF dim # ELLIPSIS /\ dim \notin used_dims
             THEN PermutationReversed(Tail(full_out), dim_to_pos, used_dims \cup {dim})
                  \o <<dim_to_pos[dim]>>
             ELSE PermutationReversed(Tail(full_out), dim_to_pos, used_dims)

RECURSIVE Permutation(_, _, _)
Permutation(full_out, dim_to_pos, used_dims) ==
    IF full_out = <<>> THEN <<>>
    ELSE LET dim == Head(full_out)
         IN  IF dim # ELLIPSIS /\ dim \notin used_dims
             THEN <<dim_to_pos[dim]>>
                  \o Permutation(Tail(full_out), dim_to_pos, used_dims \cup {dim})
             ELSE Permutation(Tail(full_out), dim_to_pos, used_dims)

\* a faulty variant: the permutation-only path is never taken
TranspositionSkipped(t, full_in, full_out, dim_to_pos) == [error |-> NoError, current |-> t]

Transposition(t, full_in, full_out, dim_to_pos) ==
    IF FastPath(full_in, full_out, dim_to_pos)
    THEN LET permutation == Permutation(full_out, dim_to_pos, {})
         IN  IF Len(permutation) > 1
             THEN IF TransposeOk(t, permutation)
                  THEN [error |-> NoError, current |-> NpTranspose(t, permutation)]
                  ELSE [error |-> Raise("ValueError"), current |-> t]
             ELSE [error |-> NoError, current |-> t]
    ELSE [error |-> NoError, current |-> t]

-----------------------------------------------------------------------------
(* Output shape: "for i, dim in enumerate(full_output_dims)".  A plan p is     *)
(* [error, final_shape, repeat_indices]; a dict read of a missing key is a    *)
(* KeyError.                                                                  *)

RECURSIVE EllipsisSizes(_, _, _)
EllipsisSizes(p, j, env) ==
    IF j >= env.n_ellipsis \/ p.error # NoError THEN p
    ELSE IF SyntheticName(j) \notin DOMAIN env.dim_sizes
    THEN [p EXCEPT !.error = Raise("KeyError")]
    ELSE EllipsisSizes([p EXCEPT !.final_shape = Append(@, env.dim_sizes[SyntheticName(j)])],
                       j + 1, env)

\* <<ok, size>>: the product of the members' sizes
RECURSIVE CompositeSize(_, _)
CompositeSize(components, dim_sizes) ==
    IF components = <<>> THEN <<TRUE, 1>>
    ELSE IF Head(components) \notin DOMAIN dim_sizes THEN <<FALSE, 0>>
    ELSE LET rest == CompositeSize(Tail(components), dim_sizes)
         IN  <<rest[1], dim_sizes[Head(components)] * rest[2]>>

ShapeDim(p, dim, env) ==
    IF dim = ELLIPSIS THEN EllipsisSizes(p, 0, env)
    ELSE IF HasParen(dim)
    THEN LET cs == CompositeSize(Components(dim), env.dim_sizes)
         IN  IF cs[1] THEN [p EXCEPT !.final_shape = Append(@, cs[2])]
             ELSE [p EXCEPT !.error = Raise("KeyError")]
    ELSE IF dim \in DOMAIN env.axes_lengths
    THEN IF dim \notin DOMAIN env.dim_sizes \/ env.dim_sizes[dim] = 1
         THEN [p EXCEPT !.final_shape = Append(@, env.axes_lengths[dim]),
                        !.repeat_indices =
                            Append(@, <<Len(p.final_shape), env.axes_lengths[dim]>>)]
         ELSE [p EXCEPT !.final_shape = Append(@, env.dim_sizes[dim])]
    ELSE IF dim \notin DOMAIN env.dim_sizes
    THEN [p EXCEPT !.error = Raise("KeyError")]
    ELSE [p EXCEPT !.final_shape = Append(@, env.dim_sizes[dim])]

RECURSIVE OutputShape(_, _, _)
OutputShape(p, full_out, env) ==
    IF full_out = <<>> \/ p.error # NoError THEN p
    ELSE OutputShape(ShapeDim(p, Head(full_out), env), Tail(full_out), env)

-----------------------------------------------------------------------------
(* Executor: the repeats, then the final reshape *)

\* sorted(repeat_indices, key=lambda x: -x[0]), a stable sort
RECURSIVE SortedRepeat(_)
SortedRepeat(rs) ==
    IF rs = <<>> THEN <<>>
    ELSE LET i == CHOOSE i \in DOMAIN rs :
                    /\ \A j \in DOMAIN rs : rs[j][1] <= rs[i][1]
                    /\ \A j \in 1..(i - 1) : rs[j][1] < rs[i][1]
         IN  <<rs[i]>> \o SortedRepeat(SubSeq(rs, 1, i - 1) \o Drop(rs, i))

\* for idx, _ in sorted_repeat_indices: current = np.expand_dims(current, axis=idx)
RECURSIVE ExpandAll(_, _)
ExpandAll(c, rs) ==
    IF rs = <<>> \/ c.error # NoError THEN c
    ELSE IF ~ExpandDimsOk(c.current, rs[1][1])
    THEN [c EXCEPT !.error = Raise("AxisError")]
    ELSE ExpandAll([c EXCEPT !.current = NpExpandDims(@, rs[1][1])], Tail(rs))

\* for idx, size in sorted_repeat_indices:
\*     current = np.repeat(np.expand_dims(current, axis=idx), size, axis=idx)
RECURSIVE RepeatAll(_, _)
RepeatAll(c, rs) ==
    IF rs = <<>> \/ c.error # NoError THEN c
    ELSE IF ~ExpandDimsOk(c.current, rs[1][1])
    THEN [c EXCEPT !.error = Raise("AxisError")]
    ELSE RepeatAll([c EXCEPT !.current =
                                NpRepeat(NpExpandDims(@, rs[1][1]), rs[1][2], rs[1][1])],
                   Tail(rs))

\* a faulty variant: the axes are inserted and never repeated
ApplyRepeatsExpandOnly(t, repeat_indices) ==
    ExpandAll([error |-> NoError, current |-> t], SortedRepeat(repeat_indices))

ApplyRepeats(t, repeat_indices) ==
    IF repeat_indices # <<>>
    THEN LET sorted_repeat_indices == SortedRepeat(repeat_indices)
         IN  RepeatAll(ExpandAll([error |-> NoError, current |-> t],
                                 sorted_repeat_indices),
                       sorted_repeat_indices)
    ELSE [error |-> NoError, current |-> t]

\* the ValueError of reshape is caught and raised again as EinopsError
FinalReshape(t, final_shape) ==
    IF ReshapeOk(t, final_shape)
    THEN [error |-> NoError, result |-> NpReshape(t, final_shape)]
    ELSE [error |-> EinopsError("Cannot reshape tensor to shape"), result |-> t]

-----------------------------------------------------------------------------
(* The explored inputs: the patterns of the notebook's tests and of the README, *)
(* and malformed or unusual ones.                                              *)

\* 'b c h w -> b (h w) c'
PatMergeHWChannelsLast ==
    <<"b", " ", "c", " ", "h", " ", "w", " ", "-", ">", " ", "b", " ", "(", "h", " ", "w", ")", " ", "c">>

\* '(h w) c -> h w c'
PatSplitHW ==
    <<"(", "h", " ", "w", ")", " ", "c", " ", "-", ">", " ", "h", " ", "w", " ", "c">>

\* 'h w c -> (h w) c'
PatMergeHW ==
    <<"h", " ", "w", " ", "c", " ", "-", ">", " ", "(", "h", " ", "w", ")", " ", "c">>

\* 'h w -> w h'
PatTranspose ==
    <<"h", " ", "w", " ", "-", ">", " ", "w", " ", "h">>

\* 'w h -> h w'
PatTransposeBack ==
    <<"w", " ", "h", " ", "-", ">", " ", "h", " ", "w">>

\* 'a b c -> a b c'
PatIdentity ==
    <<"a", " ", "b", " ", "c", " ", "-", ">", " ", "a", " ", "b", " ", "c">>

\* '... h w -> ... (h w)'
PatEllipsisMerge ==
    <<".", ".", ".", " ", "h", " ", "w", " ", "-", ">", " ", ".", ".", ".", " ", "(", "h", " ", "w", ")">>

\* 'a 1 c -> a b c'
PatRepeat ==
    <<"a", " ", "1", " ", "c", " ", "-", ">", " ", "a", " ", "b", " ", "c">>

\* 'a b c -> c b a'
PatReverse ==
    <<"a", " ", "b", " ", "c", " ", "-", ">", " ", "c", " ", "b", " ", "a">>

\* '(a b c) d -> a b c d'
PatThreeUnknown ==
    <<"(", "a", " ", "b", " ", "c", ")", " ", "d", " ", "-", ">", " ", "a", " ", "b", " ", "c", " ", "d">>

\* 'a (b c) -> a b c'
PatSplitLast ==
    <<"a", " ", "(", "b", " ", "c", ")", " ", "-", ">", " ", "a", " ", "b", " ", "c">>

\* 'a -> a b c'
PatNewAxes ==
    <<"a", " ", "-", ">", " ", "a", " ", "b", " ", "c">>

\* '... h w -> h w ...'
PatEllipsisToFront ==
    <<".", ".", ".", " ", "h", " ", "w", " ", "-", ">", " ", "h", " ", "w", " ", ".", ".", ".">>

\* 'a b ... -> b a ...'
PatSwapEllipsis ==
    <<"a", " ", "b", " ", ".", ".", ".", " ", "-", ">", " ", "b", " ", "a", " ", ".", ".", ".">>

\* '... -> ...'
PatEllipsisOnly ==
    <<".", ".", ".", " ", "-", ">", " ", ".", ".", ".">>

\* '(a b) c -> (b a) c'
PatMergeSwapped ==
    <<"(", "a", " ", "b", ")", " ", "c", " ", "-", ">", " ", "(", "b", " ", "a", ")", " ", "c">>

\* 'a 1 c -> a c 1'
PatSingletonLast ==
    <<"a", " ", "1", " ", "c", " ", "-", ">", " ", "a", " ", "c", " ", "1">>

\* '... (h w) -> ... h w'
PatEllipsisSplit ==
    <<".", ".", ".", " ", "(", "h", " ", "w", ")", " ", "-", ">", " ", ".", ".", ".", " ", "h", " ", "w">>

\* 'a ... -> ... a ...'
PatTwoEllipsisOut ==
    <<"a", " ", ".", ".", ".", " ", "-", ">", " ", ".", ".", ".", " ", "a", " ", ".", ".", ".">>

\* '... a ... -> a ...'
PatTwoEllipsisIn ==
    <<".", ".", ".", " ", "a", " ", ".", ".", ".", " ", "-", ">", " ", "a", " ", ".", ".", ".">>

\* 'a ... -> a'
PatEllipsisInOnly ==
    <<"a", " ", ".", ".", ".", " ", "-", ">", " ", "a">>

\* 'a -> a ...'
PatEllipsisOutOnly ==
    <<"a", " ", "-", ">", " ", "a", " ", ".", ".", ".">>

\* 'a b'
PatNoArrow ==
    <<"a", " ", "b">>

\* 'a -> b -> a'
PatTwoArrows ==
    <<"a", " ", "-", ">", " ", "b", " ", "-", ">", " ", "a">>

\* 'a (b -> a b'
PatOpenParen ==
    <<"a", " ", "(", "b", " ", "-", ">", " ", "a", " ", "b">>

\* 'a b a -> a b'
PatDuplicate ==
    <<"a", " ", "b", " ", "a", " ", "-", ">", " ", "a", " ", "b">>

\* 'a b c -> a b'
PatDropAxis ==
    <<"a", " ", "b", " ", "c", " ", "-", ">", " ", "a", " ", "b">>

\* 'a -> b'
PatUnboundOut ==
    <<"a", " ", "-", ">", " ", "b">>

\* 'a _dx -> _dx a'
PatUnderscoreD ==
    <<"a", " ", "_", "d", "x", " ", "-", ">", " ", "_", "d", "x", " ", "a">>

\* '() a -> a'
PatEmptyGroup ==
    <<"(", ")", " ", "a", " ", "-", ">", " ", "a">>

\* '(b c) b -> b c'
PatGroupThenName ==
    <<"(", "b", " ", "c", ")", " ", "b", " ", "-", ">", " ", "b", " ", "c">>

Patterns ==
    {PatMergeHWChannelsLast, PatSplitHW, PatMergeHW, PatTranspose, PatTransposeBack,
     PatIdentity, PatEllipsisMerge, PatRepeat, PatReverse, PatThreeUnknown,
     PatSplitLast, PatNewAxes, PatEllipsisToFront, PatSwapEllipsis, PatEllipsisOnly,
     PatMergeSwapped, PatSingletonLast, PatEllipsisSplit, PatTwoEllipsisOut,
     PatTwoEllipsisIn, PatEllipsisInOnly, PatEllipsisOutOnly, PatNoArrow,
     PatTwoArrows, PatOpenParen, PatDuplicate, PatDropAxis, PatUnboundOut,
     PatUnderscoreD, PatEmptyGroup, PatGroupThenName}

\* the patterns applied to the result of an earlier call
ChainPatterns == {PatMergeHW, PatTransposeBack, PatSplitHW}

\* the names the caller may give a length for
KeyNames == {<<"b">>, <<"c">>, <<"h">>}

\* AxisLengths: a positive length for some of the names
LengthMaps == UNION {[S -> 1..MaxLen] : S \in SUBSET KeyNames}

\* arrays of 1 to MaxRank axes and up to MaxElems elements, and longer two-axis ones
Shapes ==
    {s \in UNION {[1..n -> 1..MaxDim] : n \in 1..MaxRank} : Prod(s) <= MaxElems}
    \cup {<<n, c>> : n \in 1..MaxSplit, c \in 1..MaxDim}

\* the caller's array: element f of the C-order data is named f - 1
Array(shape) == [shape |-> shape, data |-> [f \in 1..Prod(shape) |-> f - 1]]

NoArray == [shape |-> <<>>, data |-> <<>>]

-----------------------------------------------------------------------------
VARIABLES
    tensor, pattern, axes_lengths,        \* the arguments of the running call
    calls,                                \* the arguments of the calls that returned
    pc,                                   \* where the running call is
    input_dims, output_dims,
    full_input_dims, full_output_dims, n_ellipsis,
    dim_sizes, composite_dims, pos, input_dim_to_pos,
    current, final_shape, repeat_indices,
    result, error

vars == <<tensor, pattern, axes_lengths, calls, pc, input_dims, output_dims,
          full_input_dims, full_output_dims, n_ellipsis, dim_sizes, composite_dims,
          pos, input_dim_to_pos, current, final_shape, repeat_indices, result, error>>

args == <<tensor, pattern, axes_lengths, calls>>

tokens == <<input_dims, output_dims>>

expanded == <<full_input_dims, full_output_dims, n_ellipsis>>

resolved == <<dim_sizes, composite_dims, pos, input_dim_to_pos>>

planned == <<final_shape, repeat_indices>>

\* the locals of a call that has just been entered
Entered ==
    /\ pc = "validate"
    /\ input_dims = <<>> /\ output_dims = <<>>
    /\ full_input_dims = <<>> /\ full_output_dims = <<>> /\ n_ellipsis = 0
    /\ dim_sizes = EmptyDict /\ composite_dims = EmptyDict
    /\ pos = 0 /\ input_dim_to_pos = EmptyDict
    /\ current = NoArray /\ final_shape = <<>> /\ repeat_indices = <<>>
    /\ result = NoArray /\ error = NoError

Enter ==
    /\ pc' = "validate"
    /\ input_dims' = <<>> /\ output_dims' = <<>>
    /\ full_input_dims' = <<>> /\ full_output_dims' = <<>> /\ n_ellipsis' = 0
    /\ dim_sizes' = EmptyDict /\ composite_dims' = EmptyDict
    /\ pos' = 0 /\ input_dim_to_pos' = EmptyDict
    /\ current' = NoArray /\ final_shape' = <<>> /\ repeat_indices' = <<>>
    /\ result' = NoArray /\ error' = NoError

Init ==
    /\ tensor \in {Array(s) : s \in Shapes}
    /\ pattern \in Patterns
    /\ axes_lengths \in LengthMaps
    /\ calls = <<>>
    /\ Entered

\* an exception leaves the call
Raised(e) == pc' = "raised" /\ error' = e

\* validate_axes_lengths(pattern, axes_lengths)
ValidateAxesLengths ==
    /\ pc = "validate"
    /\ LET e == validate_axes_lengths(pattern, axes_lengths)
       IN  IF e # NoError THEN Raised(e) ELSE pc' = "parse" /\ error' = error
    /\ UNCHANGED <<args, tokens, expanded, resolved, current, planned, result>>

\* input_dims, output_dims = parse_pattern(pattern)
ParsePattern ==
    /\ pc = "parse"
    /\ LET parsed == parse_pattern(pattern)
       IN  IF parsed.error # NoError
           THEN Raised(parsed.error) /\ UNCHANGED tokens
           ELSE /\ input_dims' = parsed.input_dims
                /\ output_dims' = parsed.output_dims
                /\ pc' = "check" /\ error' = error
    /\ UNCHANGED <<args, expanded, resolved, current, planned, result>>

\* the checks on parentheses and on the ellipsis
ValidatePattern ==
    /\ pc = "check"
    /\ LET e == PatternValidation(input_dims, output_dims)
       IN  IF e # NoError THEN Raised(e) ELSE pc' = "ellipsis" /\ error' = error
    /\ UNCHANGED <<args, tokens, expanded, resolved, current, planned, result>>

\* the ellipsis becomes n_ellipsis synthetic names on both sides
ExpandEllipsis ==
    /\ pc = "ellipsis"
    /\ LET x == ProcessEllipsis(input_dims, output_dims, Len(tensor.shape))
       IN  IF x.error # NoError
           THEN Raised(x.error) /\ UNCHANGED expanded
           ELSE /\ full_input_dims' = x.full_input_dims
                /\ full_output_dims' = x.full_output_dims
                /\ n_ellipsis' = x.n_ellipsis
                /\ pc' = IF x.full_input_dims = <<>> THEN "transpose" ELSE "resolve"
                /\ error' = error
    /\ UNCHANGED <<args, tokens, resolved, current, planned, result>>

\* one iteration of the loop over full_input_dims; pos grows by one in every
\* iteration, so the token of this iteration is full_input_dims[pos + 1]
ResolveInput ==
    /\ pc = "resolve"
    /\ LET r == ResolveDim([error |-> NoError, dim_sizes |-> dim_sizes,
                            composite_dims |-> composite_dims, pos |-> pos,
                            input_dim_to_pos |-> input_dim_to_pos],
                           full_input_dims[pos + 1], tensor.shape, axes_lengths)
       IN  /\ dim_sizes' = r.dim_sizes
           /\ composite_dims' = r.composite_dims
           /\ pos' = r.pos
           /\ input_dim_to_pos' = r.input_dim_to_pos
           /\ IF r.error # NoError THEN Raised(r.error)
              ELSE /\ pc' = IF r.pos = Len(full_input_dims) THEN "transpose" ELSE "resolve"
                   /\ error' = error
    /\ UNCHANGED <<args, tokens, expanded, current, planned, result>>

\* the transpose of the permutation-only path, or the array as it is
Transpose ==
    /\ pc = "transpose"
    /\ LET x == Transposition(tensor, full_input_dims, full_output_dims, input_dim_to_pos)
       IN  IF x.error # NoError
           THEN Raised(x.error) /\ UNCHANGED current
           ELSE current' = x.current /\ pc' = "shape" /\ error' = error
    /\ UNCHANGED <<args, tokens, expanded, resolved, planned, result>>

\* final_shape and repeat_indices
CalculateOutputShape ==
    /\ pc = "shape"
    /\ LET p == OutputShape([error |-> NoError, final_shape |-> <<>>,
                             repeat_indices |-> <<>>],
                            full_output_dims,
                            [n_ellipsis |-> n_ellipsis, dim_sizes |-> dim_sizes,
                             axes_lengths |-> axes_lengths])
       IN  /\ final_shape' = p.final_shape
           /\ repeat_indices' = p.repeat_indices
           /\ IF p.error # NoError THEN Raised(p.error)
              ELSE pc' = "repeat" /\ error' = error
    /\ UNCHANGED <<args, tokens, expanded, resolved, current, result>>

\* if repeat_indices: ...
Repeat ==
    /\ pc = "repeat"
    /\ LET c == ApplyRepeats(current, repeat_indices)
       IN  /\ current' = c.current
           /\ IF c.error # NoError THEN Raised(c.error)
              ELSE pc' = "reshape" /\ error' = error
    /\ UNCHANGED <<args, tokens, expanded, resolved, planned, result>>

\* return current.reshape(final_shape)
Reshape ==
    /\ pc = "reshape"
    /\ LET x == FinalReshape(current, final_shape)
       IN  IF x.error # NoError
           THEN Raised(x.error) /\ UNCHANGED result
           ELSE result' = x.result /\ pc' = "done" /\ error' = error
    /\ UNCHANGED <<args, tokens, expanded, resolved, current, planned>>

\* the caller passes the returned array to rearrange again
CallAgain ==
    /\ pc = "done"
    /\ Len(calls) + 1 < MaxCalls
    /\ calls' = Append(calls, [tensor |-> tensor, pattern |-> pattern,
                               axes_lengths |-> axes_lengths])
    /\ tensor' = result
    /\ pattern' \in ChainPatterns
    /\ axes_lengths' = EmptyDict
    /\ Enter

Next ==
    \/ ValidateAxesLengths
    \/ ParsePattern
    \/ ValidatePattern
    \/ ExpandEllipsis
    \/ ResolveInput
    \/ Transpose
    \/ CalculateOutputShape
    \/ Repeat
    \/ Reshape
    \/ CallAgain

Spec == Init /\ [][Next]_vars

-----------------------------------------------------------------------------
(* Properties *)

\* the running call has returned or raised
Finished == pc \in {"done", "raised"}

\* the element of t at the 0-based multi-index idx
Elem(t, idx) == t.data[Ravel(t.shape, idx) + 1]

\* the first call of a run, with this pattern and these lengths
FirstCall(pat, lengths) == calls = <<>> /\ pattern = pat /\ axes_lengths = lengths

\* the second call of a run, on the array the first call returned
SecondCall(pat1, pat2) ==
    Len(calls) = 1 /\ calls[1].pattern = pat1 /\ pattern = pat2

NotEnoughDimensions == EinopsError("Not enough dimensions in tensor")

MultipleUnknownDimensions == EinopsError("Multiple unknown dimensions in")

\* C1: for x of shape (B, C, H, W), rearrange(x, 'b c h w -> b (h w) c') returns
\* an array of shape (B, H*W, C) whose element [b, h*W + w, c] is x[b, c, h, w].
C1_ChannelsLastLayout ==
    (FirstCall(PatMergeHWChannelsLast, EmptyDict) /\ Len(tensor.shape) = 4 /\ Finished)
    => LET B == tensor.shape[1]
           C == tensor.shape[2]
           H == tensor.shape[3]
           W == tensor.shape[4]
       IN  /\ pc = "done"
           /\ result.shape = <<B, H * W, C>>
           /\ \A b \in 0..(B - 1), c \in 0..(C - 1), h \in 0..(H - 1), w \in 0..(W - 1) :
                  Elem(result, <<b, h * W + w, c>>) = Elem(tensor, <<b, c, h, w>>)

\* the lengths {h: v}
OnlyH(lengths) == DOMAIN lengths = {<<"h">>}

\* C2: for x of shape (N, C) and h >= 1 dividing N, the split
\* '(h w) c -> h w c' with h, followed by the merge 'h w c -> (h w) c', succeeds
\* and returns x, in shape and in every element.
C2_SplitMergeRoundTrip ==
    /\ (/\ calls = <<>> /\ pattern = PatSplitHW /\ OnlyH(axes_lengths)
        /\ Len(tensor.shape) = 2
        /\ tensor.shape[1] % axes_lengths[<<"h">>] = 0
        /\ Finished)
       => /\ pc = "done"
          /\ result.shape = <<axes_lengths[<<"h">>],
                              tensor.shape[1] \div axes_lengths[<<"h">>],
                              tensor.shape[2]>>
    /\ (/\ SecondCall(PatSplitHW, PatMergeHW) /\ OnlyH(calls[1].axes_lengths)
        /\ Len(calls[1].tensor.shape) = 2
        /\ Finished)
       => pc = "done" /\ result = calls[1].tensor

\* a round trip that splits a 4-long axis in 2 x 2 has returned
C2_Witness ==
    /\ SecondCall(PatSplitHW, PatMergeHW) /\ OnlyH(calls[1].axes_lengths)
    /\ calls[1].axes_lengths[<<"h">>] = 2
    /\ calls[1].tensor.shape = <<4, 2>>
    /\ tensor.shape = <<2, 2, 2>>
    /\ pc = "done"

\* C3: for a rank-2 x, rearrange(x, 'h w -> w h') has shape (W, H) with element
\* [w, h] equal to x[h, w], and transposing the result back with 'w h -> h w'
\* returns x.
C3_DoubleTranspose ==
    /\ (FirstCall(PatTranspose, EmptyDict) /\ Len(tensor.shape) = 2 /\ Finished)
       => /\ pc = "done"
          /\ result.shape = <<tensor.shape[2], tensor.shape[1]>>
          /\ \A h \in 0..(tensor.shape[1] - 1), w \in 0..(tensor.shape[2] - 1) :
                 Elem(result, <<w, h>>) = Elem(tensor, <<h, w>>)
    /\ (/\ SecondCall(PatTranspose, PatTransposeBack)
        /\ calls[1].axes_lengths = EmptyDict
        /\ Len(calls[1].tensor.shape) = 2
        /\ Finished)
       => pc = "done" /\ result = calls[1].tensor

\* a 4 x 2 array has been transposed to 2 x 4 and back
C3_Witness ==
    /\ SecondCall(PatTranspose, PatTransposeBack)
    /\ calls[1].axes_lengths = EmptyDict
    /\ calls[1].tensor.shape = <<4, 2>>
    /\ tensor.shape = <<2, 4>>
    /\ tensor.data # calls[1].tensor.data
    /\ pc = "done"

\* C4: for a rank-3 x, rearrange(x, 'a b c -> a b c') succeeds and returns an
\* array equal to x in shape and in every element.
C4_Identity ==
    (FirstCall(PatIdentity, EmptyDict) /\ Len(tensor.shape) = 3 /\ Finished)
    => pc = "done" /\ result = tensor

\* the identity pattern has returned for a 2 x 2 x 2 array
C4_Witness ==
    /\ FirstCall(PatIdentity, EmptyDict)
    /\ tensor.shape = <<2, 2, 2>>
    /\ pc = "done"

\* C5: for x of rank r >= 2, rearrange(x, '... h w -> ... (h w)') succeeds with
\* the shape of x's leading r - 2 axes followed by the product of the last two;
\* the ellipsis stands for exactly r - 2 axes, and with a composite token on the
\* input side ('... (h w) -> ... h w') for r - 1: one input axis per token.
C5_EllipsisMerge ==
    /\ (/\ FirstCall(PatEllipsisMerge, EmptyDict) /\ Len(tensor.shape) >= 2
        /\ Finished)
       => LET r == Len(tensor.shape)
          IN  /\ pc = "done"
              /\ n_ellipsis = r - 2
              /\ Len(full_input_dims) = r
              /\ result.shape = SubSeq(tensor.shape, 1, r - 2)
                                \o <<tensor.shape[r - 1] * tensor.shape[r]>>
    /\ (/\ calls = <<>> /\ pattern = PatEllipsisSplit /\ Len(tensor.shape) >= 1
        /\ pc \in {"resolve", "transpose", "shape", "repeat", "reshape", "done"})
       => n_ellipsis = Len(tensor.shape) - 1 /\ Len(full_input_dims) = Len(tensor.shape)

\* the last two axes of a rank-4 array have been merged behind two ellipsis axes
C5_Witness ==
    /\ FirstCall(PatEllipsisMerge, EmptyDict)
    /\ tensor.shape = <<1, 2, 2, 2>>
    /\ n_ellipsis = 2
    /\ pc = "done"

\* the lengths {b: v}
OnlyB(lengths) == DOMAIN lengths = {<<"b">>}

\* C6: for x of shape (A, 1, C) and L >= 1, rearrange(x, 'a 1 c -> a b c', b=L)
\* succeeds, has shape (A, L, C), and its element [a, j, c] is x[a, 0, c].
C6_RepeatNewAxis ==
    (/\ calls = <<>> /\ pattern = PatRepeat /\ OnlyB(axes_lengths)
     /\ Len(tensor.shape) = 3 /\ tensor.shape[2] = 1
     /\ Finished)
    => LET A == tensor.shape[1]
           C == tensor.shape[3]
           L == axes_lengths[<<"b">>]
       IN  /\ pc = "done"
           /\ result.shape = <<A, L, C>>
           /\ \A a \in 0..(A - 1), j \in 0..(L - 1), c \in 0..(C - 1) :
                  Elem(result, <<a, j, c>>) = Elem(tensor, <<a, 0, c>>)

\* a 2 x 1 x 2 array has been repeated twice along the new axis
C6_Witness ==
    /\ calls = <<>> /\ pattern = PatRepeat /\ OnlyB(axes_lengths)
    /\ axes_lengths[<<"b">>] = 2
    /\ tensor.shape = <<2, 1, 2>>
    /\ repeat_indices = <<<<1, 2>>>>
    /\ pc = "done"

\* C7: a call that does not return an array fails with EinopsError, and with no
\* other kind of exception.
C7_OnlyEinopsError == pc = "raised" => error.exc = "EinopsError"

\* the ellipsis would stand for a negative number of axes
NegativeEllipsis ==
    /\ pc = "ellipsis"
    /\ ELLIPSIS \in Range(input_dims)
    /\ Len(tensor.shape) - n_explicit(input_dims) < 0

\* the resolver is about to consume a token with no input axis left
ShapeExhausted == pc = "resolve" /\ pos >= Len(tensor.shape)

\* C8: when the ellipsis count would be negative, or the cursor has reached the
\* array's rank before an input token is consumed, whatever the kind of the
\* token, the call fails with 'Not enough dimensions in tensor'.
C8_NotEnoughDimensions ==
    [][(NegativeEllipsis \/ ShapeExhausted)
       => (pc' = "raised" /\ error' = NotEnoughDimensions)]_vars

\* the members of a group that have no caller-supplied length
UnknownMembers(dim, lengths) ==
    {i \in DOMAIN Components(dim) : Components(dim)[i] \notin DOMAIN lengths}

\* the resolver has reached a composite group with two or more unknown members
AtAmbiguousGroup ==
    /\ pc = "resolve"
    /\ LET dim == full_input_dims[pos + 1]
       IN  /\ HasParen(dim) /\ ~StartsWith(dim, <<"_", "d">>)
           /\ Cardinality(UnknownMembers(dim, axes_lengths)) >= 2

\* C9: when the resolver reaches a composite group with two or more members that
\* have no caller-supplied length, the call fails with 'Multiple unknown
\* dimensions', whatever the array's shape.
C9_MultipleUnknownDimensions ==
    [][AtAmbiguousGroup
       => (pc' = "raised" /\ error' = MultipleUnknownDimensions)]_vars

\* C10: a pattern that has passed the validation holds at most one ellipsis on
\* each side, and holds it on the input side iff on the output side.
C10_ParsedPatternInvariant ==
    pc \in {"ellipsis", "resolve", "transpose", "shape", "repeat", "reshape", "done"}
    => /\ CountEllipsis(input_dims) <= 1
       /\ CountEllipsis(output_dims) <= 1
       /\ (ELLIPSIS \in Range(input_dims)) <=> (ELLIPSIS \in Range(output_dims))

\* C11: a size-1 input axis named by a plain token is widened to the caller's
\* length: for x of shape (A, 1, C) and b=L, rearrange(x, 'a b c -> a b c', b=L)
\* succeeds with shape (A, L, C), every slice along b being x's singleton slice.
C11_WidenSingleton ==
    (/\ calls = <<>> /\ pattern = PatIdentity /\ OnlyB(axes_lengths)
     /\ Len(tensor.shape) = 3 /\ tensor.shape[2] = 1
     /\ Finished)
    => LET A == tensor.shape[1]
           C == tensor.shape[3]
           L == axes_lengths[<<"b">>]
       IN  /\ pc = "done"
           /\ result.shape = <<A, L, C>>
           /\ \A a \in 0..(A - 1), j \in 0..(L - 1), c \in 0..(C - 1) :
                  Elem(result, <<a, j, c>>) = Elem(tensor, <<a, 0, c>>)

\* the array has as many elements as final_shape asks for, and final_shape holds
\* every instruction's target size at its index
RepeatsApplied(t) ==
    /\ ReshapeOk(t, final_shape)
    /\ \A i \in DOMAIN repeat_indices :
           /\ repeat_indices[i][1] < Len(final_shape)
           /\ final_shape[repeat_indices[i][1] + 1] = repeat_indices[i][2]

\* C12: for a call whose plan holds one or more repeat instructions, applying
\* them in descending index order never inserts an axis at an invalid position,
\* and leaves an array whose element count is the product of final_shape, so
\* that the final reshape succeeds with each new axis at its target size.
C12_RepeatsWellDefined ==
    [][(pc = "repeat" /\ repeat_indices # <<>>)
       => (pc' = "reshape" /\ RepeatsApplied(current'))]_vars

\* the input token at 0-based position i is a composite group
IsGroup(i) ==
    HasParen(full_input_dims[i + 1]) /\ ~StartsWith(full_input_dims[i + 1], <<"_", "d">>)

\* the names the input token at position i binds
BoundNames(i) ==
    IF IsGroup(i) THEN Range(Components(full_input_dims[i + 1]))
    ELSE {full_input_dims[i + 1]}

\* the product of the caller's lengths of the members that have one
RECURSIVE KnownProduct(_, _)
KnownProduct(components, lengths) ==
    IF components = <<>> THEN 1
    ELSE (IF Head(components) \in DOMAIN lengths THEN lengths[Head(components)] ELSE 1)
         * KnownProduct(Tail(components), lengths)

\* the product of the resolved sizes of the members
RECURSIVE SizeProduct(_, _)
SizeProduct(components, sizes) ==
    IF components = <<>> THEN 1
    ELSE sizes[Head(components)] * SizeProduct(Tail(components), sizes)

\* the resolver has walked the whole input side without error
InputResolved ==
    /\ pc \in {"transpose", "shape", "repeat", "reshape", "done"}
    /\ pos = Len(full_input_dims)

\* the product of the members' sizes is the size of the axis the group consumed
GroupConsistent(i) ==
    SizeProduct(Components(full_input_dims[i + 1]), dim_sizes) = tensor.shape[i + 1]

\* the members of the group are distinct names that no other input token binds
MembersBoundOnce(i) ==
    LET components == Components(full_input_dims[i + 1])
    IN  /\ \A j, k \in DOMAIN components : j # k => components[j] # components[k]
        /\ \A j \in 0..(Len(full_input_dims) - 1) :
               j # i => BoundNames(j) \cap Range(components) = {}

\* the resolver is at a group that has an axis, and the step it takes
AtGroup == pc = "resolve" /\ pos < Len(tensor.shape) /\ IsGroup(pos)

\* one member without a length: bound to total / known_size iff known_size
\* divides total, 'Cannot divide dimension size' otherwise
OneUnknownStep ==
    LET dim == full_input_dims[pos + 1]
        components == Components(dim)
        total == tensor.shape[pos + 1]
        known == KnownProduct(components, axes_lengths)
        u == components[CHOOSE i \in UnknownMembers(dim, axes_lengths) : TRUE]
    IN  (AtGroup /\ Cardinality(UnknownMembers(dim, axes_lengths)) = 1)
        => IF total % known = 0
           THEN pc' # "raised" /\ dim_sizes'[u] * known = total
           ELSE pc' = "raised" /\ error' = EinopsError("Cannot divide dimension size")

\* no member without a length: accepted iff the product is total, 'Size
\* mismatch' otherwise
FullyKnownStep ==
    LET dim == full_input_dims[pos + 1]
        known == KnownProduct(Components(dim), axes_lengths)
    IN  (AtGroup /\ UnknownMembers(dim, axes_lengths) = {})
        => IF tensor.shape[pos + 1] = known
           THEN pc' # "raised"
           ELSE pc' = "raised" /\ error' = EinopsError("Size mismatch for")

\* C13 as stated: once the input side is resolved without error, for every
\* composite token of the input side the product of the DimSizes of its members
\* is the size of the axis it consumed; and the two resolution rules.
C13_CompositeConsistent ==
    /\ [](InputResolved
          => \A i \in 0..(Len(full_input_dims) - 1) : IsGroup(i) => GroupConsistent(i))
    /\ [][OneUnknownStep /\ FullyKnownStep]_vars

\* C13, amended: the same for every composite token whose members are distinct
\* names bound by no other input token; and the two resolution rules.
C13_CompositeConsistentBoundOnce ==
    /\ [](InputResolved
          => \A i \in 0..(Len(full_input_dims) - 1) :
                 (IsGroup(i) /\ MembersBoundOnce(i)) => GroupConsistent(i))
    /\ [][OneUnknownStep /\ FullyKnownStep]_vars

\* a 4-long axis has been resolved as (h w) with h = 2 and w inferred as 2
C13_Witness ==
    /\ calls = <<>> /\ pattern = PatSplitHW /\ OnlyH(axes_lengths)
    /\ axes_lengths[<<"h">>] = 2
    /\ tensor.shape = <<4, 2>>
    /\ InputResolved
    /\ dim_sizes[<<"w">>] = 2

\* the positions of the input tokens, among the first n, that bind name
Bindings(name, n) == {i \in 0..(n - 1) : name \in BoundNames(i)}

Least(S) == CHOOSE i \in S : \A j \in S : i <= j

Greatest(S) == CHOOSE i \in S : \A j \in S : j <= i

\* the resolver is walking, or has walked, the input side: pos tokens are bound
Walking ==
    pc \in {"resolve", "transpose", "shape", "repeat", "reshape", "done"}

\* C14 as stated: a name that occurs more than once on the input side is mapped
\* to the position of its first occurrence, and later bindings do not change it.
C14_FirstOccurrence ==
    Walking => \A name \in DOMAIN input_dim_to_pos :
                   input_dim_to_pos[name] = Least(Bindings(name, pos))

\* C14, amended: InputPosition maps every bound name to the position of its last
\* occurrence so far: each later binding of the name replaces the earlier one.
C14_LastOccurrence ==
    Walking => /\ DOMAIN input_dim_to_pos = UNION {BoundNames(i) : i \in 0..(pos - 1)}
               /\ \A name \in DOMAIN input_dim_to_pos :
                      input_dim_to_pos[name] = Greatest(Bindings(name, pos))

\* 'a b a' has been resolved on a rank-3 array: a was bound at 0 and again at 2
C14_Witness ==
    /\ calls = <<>> /\ pattern = PatDuplicate
    /\ Len(tensor.shape) = 3
    /\ InputResolved
    /\ Bindings(<<"a">>, pos) = {0, 2}
    /\ input_dim_to_pos[<<"a">>] = 2

=============================================================================
